---- MODULE Spec2Model ----
(***************************************************************************)
(* The protocol engine of the SCPI multimeter component                    *)
(* (components/owon_xdm/owon_xdm.h, class SCPIDMM): line framing of the    *)
(* UART byte stream, response classification, the measurement-function     *)
(* state, the 100 ms polling scheduler and the command dispatcher.         *)
(*                                                                         *)
(* A std::string is a sequence of one-character strings, so that toupper,  *)
(* find, operator+ and stof are computed character by character.           *)
(***************************************************************************)
EXTENDS Integers, Sequences, FiniteSets, TLC

(***************************************************************************)
(* Bounds of the environment.                                              *)
(***************************************************************************)
\* the clock is advanced up to this many milliseconds after boot
MaxTime == 250
\* the instrument starts a new chunk only while fewer than this many
\* characters of an unterminated line are buffered
MaxLine == 2
\* the clock advances between operations by one of these steps
TimeSteps == {50}

(***************************************************************************)
(* uint32_t: a value is kept as its two 16-bit halves, and the arithmetic  *)
(* is modulo 2^32.                                                         *)
(***************************************************************************)
Half == 65536

U32(n) == [hi |-> (n \div Half) % Half, lo |-> n % Half]

\* the number a uint32_t holds, for values below 2^31
U32Val(a) == a.hi * Half + a.lo

U32Add(a, n) ==
  [hi |-> (a.hi + ((a.lo + n) \div Half)) % Half, lo |-> (a.lo + n) % Half]

U32Sub(a, b) ==
  LET borrow == IF a.lo < b.lo THEN 1 ELSE 0
  IN  [hi |-> (a.hi - b.hi - borrow) % Half, lo |-> (a.lo - b.lo) % Half]

U32Geq(a, b) == a.hi > b.hi \/ (a.hi = b.hi /\ a.lo >= b.lo)

(***************************************************************************)
(* Characters and strings.                                                 *)
(***************************************************************************)
CR == "\r"
LF == "\n"
CRLF == <<CR, LF>>

LowerCase == <<"a", "b", "c", "d", "e", "f", "g", "h", "i", "j", "k", "l", "m", "n", "o", "p", "q", "r", "s", "t", "u", "v", "w", "x", "y", "z">>
UpperCase == <<"A", "B", "C", "D", "E", "F", "G", "H", "I", "J", "K", "L", "M", "N", "O", "P", "Q", "R", "S", "T", "U", "V", "W", "X", "Y", "Z">>
DigitChars == <<"0", "1", "2", "3", "4", "5", "6", "7", "8", "9">>

Min(S) == CHOOSE x \in S : \A y \in S : x <= y

\* ::toupper in the "C" locale
toupper(c) ==
  IF \E i \in 1..Len(LowerCase) : LowerCase[i] = c
  THEN UpperCase[CHOOSE i \in 1..Len(LowerCase) : LowerCase[i] = c]
  ELSE c

\* std::transform(upper.begin(), upper.end(), upper.begin(), ::toupper)
transform_toupper(s) == [i \in 1..Len(s) |-> toupper(s[i])]

\* std::string::npos
npos == -1

\* std::string::find(frag): the 0-based position of the first occurrence
find(s, frag) ==
  LET hits == {i \in 0..(Len(s) - Len(frag)) : SubSeq(s, i + 1, i + Len(frag)) = frag}
  IN  IF hits = {} THEN npos ELSE Min(hits)

\* the options of the function select
FUNCTION_OPTIONS ==
  << <<"D", "C", " ", "V", "o", "l", "t", "a", "g", "e">>, <<"A", "C", " ", "V", "o", "l", "t", "a", "g", "e">>, <<"D", "C", " ", "C", "u", "r", "r", "e", "n", "t">>, <<"A", "C", " ", "C", "u", "r", "r", "e", "n", "t">>,
     <<"R", "e", "s", "i", "s", "t", "a", "n", "c", "e">>, <<"C", "a", "p", "a", "c", "i", "t", "a", "n", "c", "e">>, <<"C", "o", "n", "t", "i", "n", "u", "i", "t", "y">>, <<"D", "i", "o", "d", "e">> >>

(***************************************************************************)
(* struct DeviceCommands and the DEVICE_COMMANDS table.                    *)
(***************************************************************************)
DeviceCommands ==
  [measure_voltage_dc  |-> <<"M", "E", "A", "S", ":", "V", "O", "L", "T", ":", "D", "C", "?">>,
   measure_voltage_ac  |-> <<"M", "E", "A", "S", ":", "V", "O", "L", "T", ":", "A", "C", "?">>,
   measure_current_dc  |-> <<"M", "E", "A", "S", ":", "C", "U", "R", "R", ":", "D", "C", "?">>,
   measure_current_ac  |-> <<"M", "E", "A", "S", ":", "C", "U", "R", "R", ":", "A", "C", "?">>,
   measure_resistance  |-> <<"M", "E", "A", "S", ":", "R", "E", "S", "?">>,
   measure_frequency   |-> <<"M", "E", "A", "S", ":", "F", "R", "E", "Q", "?">>,
   measure_capacitance |-> <<"M", "E", "A", "S", ":", "C", "A", "P", "?">>,
   measure_temperature |-> <<"M", "E", "A", "S", ":", "T", "E", "M", "P", "?">>,
   measure_continuity  |-> <<"M", "E", "A", "S", ":", "C", "O", "N", "T", "?">>,
   measure_diode       |-> <<"M", "E", "A", "S", ":", "D", "I", "O", "D", "?">>,
   identify            |-> <<"*", "I", "D", "N", "?">>,
   reset               |-> <<"*", "R", "S", "T">>,
   remote_enable       |-> <<"S", "Y", "S", "T", ":", "R", "E", "M">>,
   fast_mode           |-> <<>>,
   init_commands       |-> <<>>]

\* DEVICE_COMMANDS with its keys in lower case
DEVICE_COMMANDS_lower_keys ==
  ("owon_xdm" :>
     [DeviceCommands EXCEPT
        !.measure_voltage_dc = <<"M", "E", "A", "S", ":", "V", "O", "L", "T", "?">>,
        !.measure_current_dc = <<"M", "E", "A", "S", ":", "C", "U", "R", "R", "?">>,
        !.fast_mode = <<"R", "A", "T", "E", " ", "F">>,
        !.init_commands = << <<"R", "A", "T", "E", " ", "F">>, <<"R", "A", "T", "E", "?">> >>])
  @@
  ("keysight_34460a" :>
     [DeviceCommands EXCEPT
        !.init_commands = << <<"D", "I", "S", "P", ":", "T", "E", "X", "T", ":", "C", "L", "E">>, <<"S", "E", "N", "S", ":", "V", "O", "L", "T", ":", "D", "C", ":", "N", "P", "L", "C", " ", "0", ".", "0", "2">>,
                             <<"T", "R", "I", "G", ":", "S", "O", "U", "R", " ", "I", "M", "M">>, <<"T", "R", "I", "G", ":", "C", "O", "U", "N", " ", "I", "N", "F">> >>])

DEVICE_COMMANDS ==
  ("OWON_XDM" :>
     [DeviceCommands EXCEPT
        !.measure_voltage_dc = <<"M", "E", "A", "S", ":", "V", "O", "L", "T", "?">>,
        !.measure_current_dc = <<"M", "E", "A", "S", ":", "C", "U", "R", "R", "?">>,
        !.fast_mode = <<"R", "A", "T", "E", " ", "F">>,
        !.init_commands = << <<"R", "A", "T", "E", " ", "F">>, <<"R", "A", "T", "E", "?">> >>])
  @@
  ("KEYSIGHT_34460A" :>
     [DeviceCommands EXCEPT
        !.init_commands = << <<"D", "I", "S", "P", ":", "T", "E", "X", "T", ":", "C", "L", "E">>, <<"S", "E", "N", "S", ":", "V", "O", "L", "T", ":", "D", "C", ":", "N", "P", "L", "C", " ", "0", ".", "0", "2">>,
                             <<"T", "R", "I", "G", ":", "S", "O", "U", "R", " ", "I", "M", "M">>, <<"T", "R", "I", "G", ":", "C", "O", "U", "N", " ", "I", "N", "F">> >>])

\* Command Table lookup (spec 4.1): the entry of an exactly matching key,
\* otherwise the generic default entry
lookup(dt) ==
  IF dt \in DOMAIN DEVICE_COMMANDS THEN DEVICE_COMMANDS[dt] ELSE DeviceCommands

MeasurementFunction ==
  {"VOLTAGE_DC", "VOLTAGE_AC", "CURRENT_DC", "CURRENT_AC", "RESISTANCE",
   "CONTINUITY", "DIODE", "FREQUENCY", "TEMPERATURE", "CAPACITANCE", "UNKNOWN"}

\* the query string a CommandSet holds for a measurement function (spec 4.5:
\* UNKNOWN maps to the generic measurement query)
CommandSetQuery(cs, f) ==
  CASE f = "VOLTAGE_DC"  -> cs.measure_voltage_dc
    [] f = "VOLTAGE_AC"  -> cs.measure_voltage_ac
    [] f = "CURRENT_DC"  -> cs.measure_current_dc
    [] f = "CURRENT_AC"  -> cs.measure_current_ac
    [] f = "RESISTANCE"  -> cs.measure_resistance
    [] f = "FREQUENCY"   -> cs.measure_frequency
    [] f = "CAPACITANCE" -> cs.measure_capacitance
    [] f = "TEMPERATURE" -> cs.measure_temperature
    [] f = "CONTINUITY"  -> cs.measure_continuity
    [] f = "DIODE"       -> cs.measure_diode
    [] OTHER             -> <<"M", "E", "A", "S", "?">>

(***************************************************************************)
(* SCPIDMM::parse_function_                                                *)
(***************************************************************************)
\* parse_function_ without the std::transform: the search is case-sensitive
parse_function_case_sensitive(function) ==
  LET upper == function
  IN  IF find(upper, <<"V", "O", "L", "T", ":", "D", "C">>) # npos THEN "VOLTAGE_DC"
      ELSE IF find(upper, <<"V", "O", "L", "T", ":", "A", "C">>) # npos THEN "VOLTAGE_AC"
      ELSE IF find(upper, <<"C", "U", "R", "R", ":", "D", "C">>) # npos THEN "CURRENT_DC"
      ELSE IF find(upper, <<"C", "U", "R", "R", ":", "A", "C">>) # npos THEN "CURRENT_AC"
      ELSE IF find(upper, <<"R", "E", "S">>) # npos THEN "RESISTANCE"
      ELSE IF find(upper, <<"C", "O", "N", "T">>) # npos THEN "CONTINUITY"
      ELSE IF find(upper, <<"D", "I", "O", "D">>) # npos THEN "DIODE"
      ELSE IF find(upper, <<"F", "R", "E", "Q">>) # npos THEN "FREQUENCY"
      ELSE IF find(upper, <<"T", "E", "M", "P">>) # npos THEN "TEMPERATURE"
      ELSE IF find(upper, <<"C", "A", "P">>) # npos THEN "CAPACITANCE"
      ELSE "UNKNOWN"

parse_function_(function) ==
  LET upper == transform_toupper(function)
  IN  IF find(upper, <<"V", "O", "L", "T", ":", "D", "C">>) # npos THEN "VOLTAGE_DC"
      ELSE IF find(upper, <<"V", "O", "L", "T", ":", "A", "C">>) # npos THEN "VOLTAGE_AC"
      ELSE IF find(upper, <<"C", "U", "R", "R", ":", "D", "C">>) # npos THEN "CURRENT_DC"
      ELSE IF find(upper, <<"C", "U", "R", "R", ":", "A", "C">>) # npos THEN "CURRENT_AC"
      ELSE IF find(upper, <<"R", "E", "S">>) # npos THEN "RESISTANCE"
      ELSE IF find(upper, <<"C", "O", "N", "T">>) # npos THEN "CONTINUITY"
      ELSE IF find(upper, <<"D", "I", "O", "D">>) # npos THEN "DIODE"
      ELSE IF find(upper, <<"F", "R", "E", "Q">>) # npos THEN "FREQUENCY"
      ELSE IF find(upper, <<"T", "E", "M", "P">>) # npos THEN "TEMPERATURE"
      ELSE IF find(upper, <<"C", "A", "P">>) # npos THEN "CAPACITANCE"
      ELSE "UNKNOWN"

(***************************************************************************)
(* SCPIDMM::query_measurement_: the command it passes to send_command.     *)
(***************************************************************************)
\* query_measurement_ with the DC voltage query in its short form
query_measurement_short_volt(f) ==
  CASE f = "VOLTAGE_DC"  -> <<"M", "E", "A", "S", ":", "V", "O", "L", "T", "?">>
    [] f = "VOLTAGE_AC"  -> <<"M", "E", "A", "S", ":", "V", "O", "L", "T", ":", "A", "C", "?">>
    [] f = "CURRENT_DC"  -> <<"M", "E", "A", "S", ":", "C", "U", "R", "R", ":", "D", "C", "?">>
    [] f = "CURRENT_AC"  -> <<"M", "E", "A", "S", ":", "C", "U", "R", "R", ":", "A", "C", "?">>
    [] f = "RESISTANCE"  -> <<"M", "E", "A", "S", ":", "R", "E", "S", "?">>
    [] f = "FREQUENCY"   -> <<"M", "E", "A", "S", ":", "F", "R", "E", "Q", "?">>
    [] f = "CAPACITANCE" -> <<"M", "E", "A", "S", ":", "C", "A", "P", "?">>
    [] f = "TEMPERATURE" -> <<"M", "E", "A", "S", ":", "T", "E", "M", "P", "?">>
    [] f = "CONTINUITY"  -> <<"M", "E", "A", "S", ":", "C", "O", "N", "T", "?">>
    [] f = "DIODE"       -> <<"M", "E", "A", "S", ":", "D", "I", "O", "D", "?">>
    [] OTHER             -> <<"M", "E", "A", "S", "?">>

\* query_measurement_ with the case of CONTINUITY copied from that of DIODE
query_measurement_copied_case(f) ==
  CASE f = "VOLTAGE_DC"  -> <<"M", "E", "A", "S", ":", "V", "O", "L", "T", ":", "D", "C", "?">>
    [] f = "VOLTAGE_AC"  -> <<"M", "E", "A", "S", ":", "V", "O", "L", "T", ":", "A", "C", "?">>
    [] f = "CURRENT_DC"  -> <<"M", "E", "A", "S", ":", "C", "U", "R", "R", ":", "D", "C", "?">>
    [] f = "CURRENT_AC"  -> <<"M", "E", "A", "S", ":", "C", "U", "R", "R", ":", "A", "C", "?">>
    [] f = "RESISTANCE"  -> <<"M", "E", "A", "S", ":", "R", "E", "S", "?">>
    [] f = "FREQUENCY"   -> <<"M", "E", "A", "S", ":", "F", "R", "E", "Q", "?">>
    [] f = "CAPACITANCE" -> <<"M", "E", "A", "S", ":", "C", "A", "P", "?">>
    [] f = "TEMPERATURE" -> <<"M", "E", "A", "S", ":", "T", "E", "M", "P", "?">>
    [] f = "CONTINUITY"  -> <<"M", "E", "A", "S", ":", "D", "I", "O", "D", "?">>
    [] f = "DIODE"       -> <<"M", "E", "A", "S", ":", "D", "I", "O", "D", "?">>
    [] OTHER             -> <<"M", "E", "A", "S", "?">>

query_measurement_(f) ==
  CASE f = "VOLTAGE_DC"  -> <<"M", "E", "A", "S", ":", "V", "O", "L", "T", ":", "D", "C", "?">>
    [] f = "VOLTAGE_AC"  -> <<"M", "E", "A", "S", ":", "V", "O", "L", "T", ":", "A", "C", "?">>
    [] f = "CURRENT_DC"  -> <<"M", "E", "A", "S", ":", "C", "U", "R", "R", ":", "D", "C", "?">>
    [] f = "CURRENT_AC"  -> <<"M", "E", "A", "S", ":", "C", "U", "R", "R", ":", "A", "C", "?">>
    [] f = "RESISTANCE"  -> <<"M", "E", "A", "S", ":", "R", "E", "S", "?">>
    [] f = "FREQUENCY"   -> <<"M", "E", "A", "S", ":", "F", "R", "E", "Q", "?">>
    [] f = "CAPACITANCE" -> <<"M", "E", "A", "S", ":", "C", "A", "P", "?">>
    [] f = "TEMPERATURE" -> <<"M", "E", "A", "S", ":", "T", "E", "M", "P", "?">>
    [] f = "CONTINUITY"  -> <<"M", "E", "A", "S", ":", "C", "O", "N", "T", "?">>
    [] f = "DIODE"       -> <<"M", "E", "A", "S", ":", "D", "I", "O", "D", "?">>
    [] OTHER             -> <<"M", "E", "A", "S", "?">>

(***************************************************************************)
(* std::stof, as SCPIDMM::parse_numeric_response_ calls it: leading white  *)
(* space is skipped, then the longest prefix that is a decimal floating    *)
(* number (or inf / nan) is converted and whatever follows it is ignored;  *)
(* std::invalid_argument when there is no such prefix, std::out_of_range   *)
(* when the number is outside the range of float.  A float is kept as its  *)
(* sign, its significant decimal digits and the power of ten of the last   *)
(* of them, so that "5.0", "5" and "0.5E1" convert to the same value; the  *)
(* rounding to 24 bits of mantissa is not represented.  Hexadecimal input  *)
(* ("0x...") is outside the alphabets used here.                           *)
(***************************************************************************)
isspace(c) == c \in {" ", "\t", "\n", "\r"}

isdigit(c) == \E i \in 1..Len(DigitChars) : DigitChars[i] = c

DigitVal(c) == (CHOOSE i \in 1..Len(DigitChars) : DigitChars[i] = c) - 1

SkipSpaces(s, i) ==
  LET rest == {j \in i..Len(s) : ~isspace(s[j])}
  IN  IF rest = {} THEN Len(s) + 1 ELSE Min(rest)

SkipDigits(s, i) ==
  LET rest == {j \in i..Len(s) : ~isdigit(s[j])}
  IN  IF rest = {} THEN Len(s) + 1 ELSE Min(rest)

RECURSIVE DecimalValue(_)
DecimalValue(ds) ==
  IF ds = <<>> THEN 0
  ELSE 10 * DecimalValue(SubSeq(ds, 1, Len(ds) - 1)) + DigitVal(ds[Len(ds)])

\* an exponent of five digits or more is beyond every float
ExponentValue(ds) == IF Len(ds) > 4 THEN 9999 ELSE DecimalValue(ds)

NoValue == [kind |-> "none", neg |-> FALSE, digits |-> <<>>, exp |-> 0]

\* sign, all digits written and the power of ten of the last digit, without
\* the leading and the trailing zeros
FloatOf(neg, ds, e) ==
  LET nz == {i \in 1..Len(ds) : ds[i] # "0"}
  IN  IF nz = {} THEN [kind |-> "finite", neg |-> neg, digits |-> <<>>, exp |-> 0]
      ELSE LET first == Min(nz)
               last  == CHOOSE i \in nz : \A j \in nz : j <= i
           IN  [kind |-> "finite", neg |-> neg,
                digits |-> [i \in 1..(last - first + 1) |-> DigitVal(ds[first + i - 1])],
                exp |-> e + (Len(ds) - last)]

\* the result of std::stof once its prefix is read: the digits before and
\* after the point and the exponent
StofResult(neg, intDs, fracDs, expVal, word) ==
  IF Len(intDs) + Len(fracDs) > 0
  THEN LET v == FloatOf(neg, intDs \o fracDs, expVal - Len(fracDs))
       IN  IF v.digits # <<>> /\ (v.exp + Len(v.digits) > 39 \/ v.exp + Len(v.digits) < 0 - 44)
           THEN [ok |-> FALSE, what |-> "out_of_range", value |-> NoValue]
           ELSE [ok |-> TRUE, what |-> "", value |-> v]
  ELSE IF word = <<"I", "N", "F">>
  THEN [ok |-> TRUE, what |-> "", value |-> [NoValue EXCEPT !.kind = "inf", !.neg = neg]]
  ELSE IF word = <<"N", "A", "N">>
  THEN [ok |-> TRUE, what |-> "", value |-> [NoValue EXCEPT !.kind = "nan", !.neg = neg]]
  ELSE [ok |-> FALSE, what |-> "invalid_argument", value |-> NoValue]

\* the exponent, from the position q1 after "e" and its sign to the
\* position q2 after its digits: without a digit there is no exponent
StofExponent(str, negExp, q1, q2) ==
  IF q2 > q1
  THEN IF negExp THEN 0 - ExponentValue(SubSeq(str, q1, q2 - 1))
       ELSE ExponentValue(SubSeq(str, q1, q2 - 1))
  ELSE 0

\* p3 is the position after the mantissa
StofAfterMantissa(str, neg, intDs, fracDs, p3, word) ==
  IF p3 <= Len(str) /\ str[p3] \in {"e", "E"}
  THEN IF p3 + 1 <= Len(str) /\ str[p3 + 1] \in {"+", "-"}
       THEN StofResult(neg, intDs, fracDs,
                       StofExponent(str, str[p3 + 1] = "-", p3 + 2, SkipDigits(str, p3 + 2)),
                       word)
       ELSE StofResult(neg, intDs, fracDs,
                       StofExponent(str, FALSE, p3 + 1, SkipDigits(str, p3 + 1)),
                       word)
  ELSE StofResult(neg, intDs, fracDs, 0, word)

\* p2 is the position after the digits before the point
StofAfterInt(str, neg, p1, p2, word) ==
  IF p2 <= Len(str) /\ str[p2] = "."
  THEN StofAfterMantissa(str, neg, SubSeq(str, p1, p2 - 1),
                         SubSeq(str, p2 + 1, SkipDigits(str, p2 + 1) - 1),
                         SkipDigits(str, p2 + 1), word)
  ELSE StofAfterMantissa(str, neg, SubSeq(str, p1, p2 - 1), <<>>, p2, word)

\* p1 is the position after the white space and the sign
StofAfterSign(str, neg, p1) ==
  StofAfterInt(str, neg, p1, SkipDigits(str, p1),
               IF p1 + 2 <= Len(str) THEN transform_toupper(SubSeq(str, p1, p1 + 2))
               ELSE <<>>)

\* p0 is the position after the leading white space
StofAfterSpace(str, p0) ==
  IF p0 <= Len(str) /\ str[p0] \in {"+", "-"}
  THEN StofAfterSign(str, str[p0] = "-", p0 + 1)
  ELSE StofAfterSign(str, FALSE, p0)

stof(str) == StofAfterSpace(str, SkipSpaces(str, 1))

\* SCPIDMM::parse_numeric_response_
parse_numeric_response_(response) == stof(response)

(***************************************************************************)
(* The state.                                                              *)
(***************************************************************************)
VARIABLES
  pc,                 \* "constructed" until the framework has called setup()
  rx_buffer_,         \* SCPIDMM::rx_buffer_
  current_function_,  \* SCPIDMM::current_function_
  waiting_for_idn_,   \* SCPIDMM::waiting_for_idn_
  last_query_,        \* SCPIDMM::last_query_
  value_sensor,       \* SCPIDMM::value_sensor
  function_sensor,    \* SCPIDMM::function_sensor
  idn_sensor,         \* SCPIDMM::idn_sensor
  millis,             \* the value millis() returns
  uart_rx,            \* the bytes the UART holds for available() / read_byte()
  device_type,        \* the configured device type (README_ESPHOME: device_type)
  out,                \* what the last operation wrote, handled, published and logged
  idn_sensor_arg,     \* the sensor last passed to set_idn_sensor, if any
  function_arg,       \* the string last passed to set_function, if any
  link,               \* the queries written that the instrument has not answered
  uart_from,          \* the queries whose replies the UART holds, in order
  read_from,          \* the queries whose replies the last operation read
  rx_stream,          \* every byte loop() has read so far
  rx_lines,           \* every line handed to handle_response_ so far
  published           \* every update of the identification and value sinks so far

vars == <<pc, rx_buffer_, current_function_, waiting_for_idn_, last_query_,
          value_sensor, function_sensor, idn_sensor, millis, uart_rx,
          device_type, out, idn_sensor_arg, function_arg,
          link, uart_from, read_from, rx_stream, rx_lines, published>>

\* the instrument and the record of the run
env == <<link, uart_from, read_from, rx_stream, rx_lines, published>>

\* nullptr
NULL == "nullptr"

\* the entities the generated configuration passes to the setters
ValueSensorEntity == "sensor.dmm_value"
FunctionTextEntity == "text_sensor.dmm_function"
IdnTextEntity == "text_sensor.device_id"

\* function_arg before the first set_function
NoCall == <<"(none)">>

EmptyOut ==
  [op |-> "none", tx |-> <<>>, handled |-> <<>>, pub_value |-> <<>>,
   pub_text |-> <<>>, log |-> <<>>]

\* SCPIDMM::query_interval_
query_interval_ == 100

\* write_str(cmd + "\r\n") of send_command
CmdLine(cmd) == cmd \o CRLF

(***************************************************************************)
(* SCPIDMM::handle_response_ on the part of the state it reads and writes. *)
(***************************************************************************)
\* handle_response_ without the return that ends the identification branch
handle_response_no_return(st, response) ==
  IF response = <<>> THEN st
  ELSE LET st1 == IF st.waiting
                  THEN [st EXCEPT
                          !.pub_text = IF idn_sensor # NULL
                                       THEN Append(@, [sink |-> idn_sensor, state |-> response])
                                       ELSE @,
                          !.waiting = FALSE]
                  ELSE st
           r   == parse_numeric_response_(response)
       IN  IF r.ok
           THEN [st1 EXCEPT
                   !.pub_value = IF value_sensor # NULL
                                 THEN Append(@, [sink |-> value_sensor, state |-> r.value])
                                 ELSE @]
           ELSE [st1 EXCEPT !.log = Append(@, response)]

\* handle_response_ publishing a not-a-number state when the parse fails
handle_response_publish_nan(st, response) ==
  IF response = <<>> THEN st
  ELSE IF st.waiting
  THEN [st EXCEPT
          !.pub_text = IF idn_sensor # NULL
                       THEN Append(@, [sink |-> idn_sensor, state |-> response])
                       ELSE @,
          !.waiting = FALSE]
  ELSE LET r == parse_numeric_response_(response)
       IN  IF r.ok
           THEN [st EXCEPT
                   !.pub_value = IF value_sensor # NULL
                                 THEN Append(@, [sink |-> value_sensor, state |-> r.value])
                                 ELSE @]
           ELSE [st EXCEPT
                   !.log = Append(@, response),
                   !.pub_value = IF value_sensor # NULL
                                 THEN Append(@, [sink |-> value_sensor,
                                                 state |-> [NoValue EXCEPT !.kind = "nan"]])
                                 ELSE @]

\* handle_response_ without waiting_for_idn_ = false
handle_response_keep_waiting(st, response) ==
  IF response = <<>> THEN st
  ELSE IF st.waiting
  THEN [st EXCEPT
          !.pub_text = IF idn_sensor # NULL
                       THEN Append(@, [sink |-> idn_sensor, state |-> response])
                       ELSE @]
  ELSE LET r == parse_numeric_response_(response)
       IN  IF r.ok
           THEN [st EXCEPT
                   !.pub_value = IF value_sensor # NULL
                                 THEN Append(@, [sink |-> value_sensor, state |-> r.value])
                                 ELSE @]
           ELSE [st EXCEPT !.log = Append(@, response)]

\* handle_response_ taking a number for a poll reply only once a function
\* has been selected
handle_response_after_selection(st, response) ==
  IF response = <<>> THEN st
  ELSE IF st.waiting
  THEN [st EXCEPT
          !.pub_text = IF idn_sensor # NULL
                       THEN Append(@, [sink |-> idn_sensor, state |-> response])
                       ELSE @,
          !.waiting = FALSE]
  ELSE LET r == parse_numeric_response_(response)
       IN  IF r.ok
           THEN [st EXCEPT
                   !.pub_value = IF value_sensor # NULL /\ current_function_ # "UNKNOWN"
                                 THEN Append(@, [sink |-> value_sensor, state |-> r.value])
                                 ELSE @]
           ELSE [st EXCEPT !.log = Append(@, response)]

handle_response_(st, response) ==
  IF response = <<>> THEN st
  ELSE IF st.waiting
  THEN [st EXCEPT
          !.pub_text = IF idn_sensor # NULL
                       THEN Append(@, [sink |-> idn_sensor, state |-> response])
                       ELSE @,
          !.waiting = FALSE]
  ELSE LET r == parse_numeric_response_(response)
       IN  IF r.ok
           THEN [st EXCEPT
                   !.pub_value = IF value_sensor # NULL
                                 THEN Append(@, [sink |-> value_sensor, state |-> r.value])
                                 ELSE @]
           ELSE [st EXCEPT !.log = Append(@, response)]

\* rx_byte appending a carriage return like any other byte
rx_byte_keep_cr(st, c) ==
  IF c = LF
  THEN IF Len(st.buf) > 0
       THEN [handle_response_([st EXCEPT !.handled = Append(@, st.buf)], st.buf)
               EXCEPT !.buf = <<>>]
       ELSE st
  ELSE [st EXCEPT !.buf = Append(@, c)]

\* the body of the while loop of loop(): one byte read from the UART
rx_byte(st, c) ==
  IF c = LF
  THEN IF Len(st.buf) > 0
       THEN [handle_response_([st EXCEPT !.handled = Append(@, st.buf)], st.buf)
               EXCEPT !.buf = <<>>]
       ELSE st
  ELSE IF c # CR
  THEN [st EXCEPT !.buf = Append(@, c)]
  ELSE st

\* while (this->available()) { ... }
RECURSIVE read_available(_, _)
read_available(st, bytes) ==
  IF bytes = <<>> THEN st
  ELSE read_available(rx_byte(st, Head(bytes)), Tail(bytes))

\* the poll check with > in place of >=
poll_due_strict(now, last) ==
  LET e == U32Sub(now, last)
  IN  U32Geq(e, U32(query_interval_)) /\ e # U32(query_interval_)

\* the poll check behind a gate: no poll while a query is unanswered
poll_due_gated(now, last) ==
  U32Geq(U32Sub(now, last), U32(query_interval_)) /\ link = <<>> /\ uart_from = <<>>

\* the poll check as millis() >= last_query_ + query_interval_
poll_due_sum(now, last) == U32Geq(now, U32Add(last, query_interval_))

\* the poll check held back until the identification line has arrived
poll_due_after_idn(now, last) ==
  U32Geq(U32Sub(now, last), U32(query_interval_)) /\ ~waiting_for_idn_

\* millis() - last_query_ >= query_interval_
poll_due(now, last) == U32Geq(U32Sub(now, last), U32(query_interval_))

\* the writes of setup() with the reset first
setup_writes_reset_first == << <<"*", "R", "S", "T", "\r", "\n">>, <<"*", "I", "D", "N", "?", "\r", "\n">>, <<"S", "Y", "S", "T", ":", "R", "E", "M", "\r", "\n">> >>

\* the three writes of setup()
setup_writes == << <<"*", "I", "D", "N", "?", "\r", "\n">>, <<"*", "R", "S", "T", "\r", "\n">>, <<"S", "Y", "S", "T", ":", "R", "E", "M", "\r", "\n">> >>

(***************************************************************************)
(* Inputs of the environment.                                              *)
(***************************************************************************)
ExampleReply == <<"5", ".", "1", "2", "3", "4", "5", "6", "E", "-", "0", "3", "\r", "\n">>

\* what the instrument link delivers between two calls of loop()
Chunks == { <<"5">>, <<"E">>, <<CR>>, <<LF>>, ExampleReply, <<"I", "D", "\r", "\n", "5", "\n">> }

\* raw commands passed to send_command
PassthroughCommands == { <<"M", "E", "A", "S", "1", "?">>, <<"C", "O", "N", "F", ":", "V", "O", "L", "T", ":", "A", "C">>, <<"*", "I", "D", "N", "?">> }

\* strings passed to set_function
FunctionCommands == { <<"C", "O", "N", "F", ":", "V", "O", "L", "T", ":", "D", "C">>, <<"R", "A", "T", "E", " ", "F">> }

\* device types a configuration may name
DeviceTypeInputs == {"auto", "OWON_XDM", "KEYSIGHT_34460A", "owon_xdm"}

\* the fragments parse_function_ looks for, in the order it looks
Fragments ==
  << <<"V", "O", "L", "T", ":", "D", "C">>, <<"V", "O", "L", "T", ":", "A", "C">>, <<"C", "U", "R", "R", ":", "D", "C">>, <<"C", "U", "R", "R", ":", "A", "C">>, <<"R", "E", "S">>, <<"C", "O", "N", "T">>,
     <<"D", "I", "O", "D">>, <<"F", "R", "E", "Q">>, <<"T", "E", "M", "P">>, <<"C", "A", "P">> >>

FragmentFunction ==
  << "VOLTAGE_DC", "VOLTAGE_AC", "CURRENT_DC", "CURRENT_AC", "RESISTANCE",
     "CONTINUITY", "DIODE", "FREQUENCY", "TEMPERATURE", "CAPACITANCE" >>

tolower(c) ==
  IF \E i \in 1..Len(UpperCase) : UpperCase[i] = c
  THEN LowerCase[CHOOSE i \in 1..Len(UpperCase) : UpperCase[i] = c]
  ELSE c

LowerOf(s) == [i \in 1..Len(s) |-> tolower(s[i])]

\* strings without any fragment, or with only a part of one
OtherInputs ==
  { <<>>, <<"M", "E", "A", "S", "1", "?">>, <<"*", "I", "D", "N", "?">>, <<"*", "R", "S", "T">>, <<"R", "A", "T", "E", " ", "F">>, <<"V", "O", "L", "T">>, <<"V", "O", "L", "T", ":", "D">>,
    <<"V", "O", "L", "T", " ", "D", "C">>, <<"v", "o", "l", "t", ":", "d", " ", "c">>, <<"C", "U", "R", "R">>, <<"R", "E", " ", "S">>, <<"D", "C", " ", "V", "o", "l", "t", "a", "g", "e">>,
    <<"D", "C", " ", "C", "u", "r", "r", "e", "n", "t">> }

\* strings passed to set_function when the function parser is exercised:
\* every fragment alone, in lower case, inside a query and inside other
\* text, every two fragments next to each other in the order (both ways round), and strings without a fragment
FunctionInputs ==
  {Fragments[i] : i \in 1..Len(Fragments)}
  \cup {LowerOf(Fragments[i]) : i \in 1..Len(Fragments)}
  \cup {<<"M", "E", "A", "S", ":">> \o Fragments[i] \o <<"?">> : i \in 1..Len(Fragments)}
  \cup {<<"A", "N", "Y", "T", "H", "I", "N", "G", " ">> \o Fragments[i] \o <<" ", "M", "O", "R", "E">> : i \in 1..Len(Fragments)}
  \cup {Fragments[i] \o <<" ">> \o LowerOf(Fragments[i + 1]) : i \in 1..(Len(Fragments) - 1)}
  \cup {LowerOf(Fragments[i + 1]) \o <<" ">> \o Fragments[i] : i \in 1..(Len(Fragments) - 1)}
  \cup OtherInputs

(***************************************************************************)
(* The operations.                                                         *)
(***************************************************************************)
\* nothing written, nothing received
InitEnv ==
  /\ link = <<>>
  /\ uart_from = <<>>
  /\ read_from = <<>>
  /\ rx_stream = <<>>
  /\ rx_lines = <<>>
  /\ published = <<>>

Init ==
  /\ pc = "constructed"
  /\ rx_buffer_ = <<>>
  /\ current_function_ = "UNKNOWN"
  /\ waiting_for_idn_ = TRUE
  /\ last_query_ = U32(0)
  /\ value_sensor = NULL
  /\ function_sensor = NULL
  /\ idn_sensor = NULL
  /\ millis = U32(0)
  /\ uart_rx = <<>>
  /\ device_type = "auto"
  /\ out = EmptyOut
  /\ idn_sensor_arg = NULL
  /\ function_arg = NoCall
  /\ InitEnv

\* void set_value_sensor(sensor::Sensor *value_sensor)
set_value_sensor(s) ==
  /\ pc = "constructed"
  /\ value_sensor' = s
  /\ out' = [EmptyOut EXCEPT !.op = "set_value_sensor"]
  /\ UNCHANGED <<pc, rx_buffer_, current_function_, waiting_for_idn_, last_query_,
                 function_sensor, idn_sensor, millis, uart_rx, device_type,
                 idn_sensor_arg, function_arg>>

\* void set_function_sensor(text_sensor::TextSensor *sensor)
set_function_sensor(sensor) ==
  /\ pc = "constructed"
  /\ function_sensor' = sensor
  /\ out' = [EmptyOut EXCEPT !.op = "set_function_sensor"]
  /\ UNCHANGED <<pc, rx_buffer_, current_function_, waiting_for_idn_, last_query_,
                 value_sensor, idn_sensor, millis, uart_rx, device_type,
                 idn_sensor_arg, function_arg>>

\* void set_idn_sensor(text_sensor::TextSensor *sensor)
\*   { this->idn_sensor = idn_sensor; }
\* the right-hand side is the member, not the parameter
set_idn_sensor(sensor) ==
  /\ pc = "constructed"
  /\ idn_sensor' = idn_sensor
  /\ idn_sensor_arg' = sensor
  /\ out' = [EmptyOut EXCEPT !.op = "set_idn_sensor"]
  /\ UNCHANGED <<pc, rx_buffer_, current_function_, waiting_for_idn_, last_query_,
                 value_sensor, function_sensor, millis, uart_rx, device_type,
                 function_arg>>

\* void setup(): the framework calls it once, before the first loop()
setup ==
  /\ pc = "constructed"
  /\ pc' = "running"
  /\ out' = [EmptyOut EXCEPT !.op = "setup", !.tx = setup_writes]
  /\ UNCHANGED <<rx_buffer_, current_function_, waiting_for_idn_, last_query_,
                 value_sensor, function_sensor, idn_sensor, millis, uart_rx,
                 device_type, idn_sensor_arg, function_arg>>

\* void loop()
loop ==
  /\ pc = "running"
  /\ LET st  == read_available(
                  [buf |-> rx_buffer_, waiting |-> waiting_for_idn_,
                   handled |-> <<>>, pub_value |-> <<>>, pub_text |-> <<>>,
                   log |-> <<>>],
                  uart_rx)
         due == poll_due(millis, last_query_)
     IN  /\ rx_buffer_' = st.buf
         /\ waiting_for_idn_' = st.waiting
         /\ uart_rx' = <<>>
         /\ last_query_' = IF due THEN millis ELSE last_query_
         /\ out' = [op |-> "loop",
                    tx |-> IF due
                           THEN <<CmdLine(query_measurement_(current_function_))>>
                           ELSE <<>>,
                    handled |-> st.handled, pub_value |-> st.pub_value,
                    pub_text |-> st.pub_text, log |-> st.log]
  /\ UNCHANGED <<pc, current_function_, value_sensor, function_sensor, idn_sensor,
                 millis, device_type, idn_sensor_arg, function_arg>>

\* send_command taking the function from the command as set_function does
send_command_parsing(cmd) ==
  /\ pc = "running"
  /\ current_function_' = parse_function_(cmd)
  /\ out' = [EmptyOut EXCEPT !.op = "send_command", !.tx = <<CmdLine(cmd)>>]
  /\ UNCHANGED <<pc, rx_buffer_, waiting_for_idn_, last_query_,
                 value_sensor, function_sensor, idn_sensor, millis, uart_rx,
                 device_type, idn_sensor_arg, function_arg>>

\* send_command discarding what has been received of the current line
send_command_flush(cmd) ==
  /\ pc = "running"
  /\ rx_buffer_' = <<>>
  /\ out' = [EmptyOut EXCEPT !.op = "send_command", !.tx = <<CmdLine(cmd)>>]
  /\ UNCHANGED <<pc, current_function_, waiting_for_idn_, last_query_,
                 value_sensor, function_sensor, idn_sensor, millis, uart_rx,
                 device_type, idn_sensor_arg, function_arg>>

\* void send_command(const std::string &cmd)
\* send_command setting waiting_for_idn_ again when it writes *IDN?
send_command_rearm(cmd) ==
  /\ pc = "running"
  /\ out' = [EmptyOut EXCEPT !.op = "send_command", !.tx = <<CmdLine(cmd)>>]
  /\ waiting_for_idn_' = (waiting_for_idn_ \/ cmd = <<"*", "I", "D", "N", "?">>)
  /\ UNCHANGED <<pc, rx_buffer_, current_function_, last_query_,
                 value_sensor, function_sensor, idn_sensor, millis, uart_rx,
                 device_type, idn_sensor_arg, function_arg>>

send_command(cmd) ==
  /\ pc = "running"
  /\ out' = [EmptyOut EXCEPT !.op = "send_command", !.tx = <<CmdLine(cmd)>>]
  /\ UNCHANGED <<pc, rx_buffer_, current_function_, waiting_for_idn_, last_query_,
                 value_sensor, function_sensor, idn_sensor, millis, uart_rx,
                 device_type, idn_sensor_arg, function_arg>>

\* void set_function(const std::string &function)
set_function(function) ==
  /\ pc = "running"
  /\ current_function_' = parse_function_(function)
  /\ function_arg' = function
  /\ out' = [EmptyOut EXCEPT
               !.op = "set_function",
               !.tx = <<CmdLine(function)>>,
               !.pub_text = IF function_sensor # NULL
                            THEN <<[sink |-> function_sensor, state |-> function]>>
                            ELSE <<>>]
  /\ UNCHANGED <<pc, rx_buffer_, waiting_for_idn_, last_query_, value_sensor,
                 function_sensor, idn_sensor, millis, uart_rx, device_type,
                 idn_sensor_arg>>

\* the callback of the function select, [this](std::string value, size_t
\* index) { this->set_function_(value); }: a structured function change
\* invokes the function state machine (spec 4.6) with the option chosen
set_function_(value) == set_function(value)

\* the instrument link delivers a chunk of bytes to the UART
Receive(chunk) ==
  /\ uart_rx = <<>>
  /\ Len(rx_buffer_) < MaxLine
  /\ uart_rx' = chunk
  /\ out' = EmptyOut
  /\ UNCHANGED <<pc, rx_buffer_, current_function_, waiting_for_idn_, last_query_,
                 value_sensor, function_sensor, idn_sensor, millis, device_type,
                 idn_sensor_arg, function_arg>>

\* time passes
Advance(d) ==
  /\ U32Val(millis) + d <= MaxTime
  /\ millis' = U32Add(millis, d)
  /\ out' = EmptyOut
  /\ UNCHANGED <<pc, rx_buffer_, current_function_, waiting_for_idn_, last_query_,
                 value_sensor, function_sensor, idn_sensor, uart_rx, device_type,
                 idn_sensor_arg, function_arg>>

\* the instrument is not modelled here: any chunk may arrive at any time
Next ==
  \/ set_value_sensor(ValueSensorEntity) /\ UNCHANGED env
  \/ set_function_sensor(FunctionTextEntity) /\ UNCHANGED env
  \/ set_idn_sensor(IdnTextEntity) /\ UNCHANGED env
  \/ setup /\ UNCHANGED env
  \/ loop /\ UNCHANGED env
  \/ \E cmd \in PassthroughCommands : send_command(cmd) /\ UNCHANGED env
  \/ \E cmd \in FunctionCommands : set_function(cmd) /\ UNCHANGED env
  \/ \E chunk \in Chunks : Receive(chunk) /\ UNCHANGED env
  \/ \E d \in TimeSteps : Advance(d) /\ UNCHANGED env

Spec == Init /\ [][Next]_vars

(***************************************************************************)
(* The function parser and the command table exercised: the component      *)
(* after setup(), for every configured device type, with set_function      *)
(* called on FunctionInputs, the function select set to each of its        *)
(* options, and no bytes received.                                         *)
(***************************************************************************)
InitFn ==
  /\ pc = "running"
  /\ rx_buffer_ = <<>>
  /\ current_function_ = "UNKNOWN"
  /\ waiting_for_idn_ = TRUE
  /\ last_query_ = U32(0)
  /\ value_sensor = ValueSensorEntity
  /\ function_sensor = FunctionTextEntity
  /\ idn_sensor = NULL
  /\ millis = U32(0)
  /\ uart_rx = <<>>
  /\ device_type \in DeviceTypeInputs
  /\ out = [EmptyOut EXCEPT !.op = "setup", !.tx = setup_writes]
  /\ idn_sensor_arg = NULL
  /\ function_arg = NoCall
  /\ InitEnv

NextFn ==
  \/ loop /\ UNCHANGED env
  \/ \E cmd \in FunctionInputs : set_function(cmd) /\ UNCHANGED env
  \/ \E i \in 1..Len(FUNCTION_OPTIONS) : set_function_(FUNCTION_OPTIONS[i]) /\ UNCHANGED env
  \/ \E d \in TimeSteps : Advance(d) /\ UNCHANGED env

SpecFn == InitFn /\ [][NextFn]_vars

(***************************************************************************)
(* The component on a link with an instrument: every query written (a      *)
(* command that ends in a question mark) waits at the instrument until it  *)
(* is answered with one line; the replies reach the UART whole and in the  *)
(* order of the queries.  Nothing holds a command back in the component:   *)
(* MaxPending bounds only how far the caller of send_command and the       *)
(* instrument run ahead.                                                   *)
(***************************************************************************)
MaxPending == 2

IsQuery(line) == Len(line) >= 3 /\ line[Len(line) - 2] = "?"

\* nothing unanswered, nothing unread
Idle == link = <<>> /\ uart_from = <<>> /\ uart_rx = <<>> /\ rx_buffer_ = <<>>

\* the queries among the lines the operation wrote are now unanswered
Transmit(by) ==
  LET qs == SelectSeq(out'.tx, IsQuery)
  IN  link' = link \o [i \in 1..Len(qs) |-> [cmd |-> qs[i], by |-> by, idle |-> Idle]]

IdnReply == <<"X", "D", "M", "1", "0", "4", "1", "\r", "\n">>

PollReply == <<"7", "\r", "\n">>

\* the line the instrument answers a query with
ReplyTo(line) ==
  IF line = <<"*", "I", "D", "N", "?", "\r", "\n">> THEN IdnReply
  ELSE IF line = <<"M", "E", "A", "S", "1", "?", "\r", "\n">> THEN ExampleReply
  ELSE PollReply

\* the instrument answers the oldest unanswered query
instrument_reply ==
  /\ link # <<>>
  /\ Len(uart_from) < MaxPending
  /\ uart_rx' = uart_rx \o ReplyTo(Head(link).cmd)
  /\ uart_from' = Append(uart_from, Head(link))
  /\ link' = Tail(link)
  /\ read_from' = <<>>
  /\ out' = EmptyOut
  /\ UNCHANGED <<pc, rx_buffer_, current_function_, waiting_for_idn_, last_query_,
                 value_sensor, function_sensor, idn_sensor, millis, device_type,
                 idn_sensor_arg, function_arg, rx_stream, rx_lines, published>>

InitLink ==
  /\ pc = "constructed"
  /\ rx_buffer_ = <<>>
  /\ current_function_ = "UNKNOWN"
  /\ waiting_for_idn_ = TRUE
  /\ last_query_ = U32(0)
  /\ value_sensor = ValueSensorEntity
  /\ function_sensor = NULL
  /\ idn_sensor = NULL
  /\ millis = U32(0)
  /\ uart_rx = <<>>
  /\ device_type = "auto"
  /\ out = EmptyOut
  /\ idn_sensor_arg = NULL
  /\ function_arg = NoCall
  /\ InitEnv

NextLink ==
  \/ /\ setup
     /\ Transmit("setup")
     /\ read_from' = <<>>
     /\ UNCHANGED <<uart_from, rx_stream, rx_lines, published>>
  \/ /\ loop
     /\ Transmit("poll")
     /\ read_from' = uart_from
     /\ uart_from' = <<>>
     /\ UNCHANGED <<rx_stream, rx_lines, published>>
  \/ \E cmd \in PassthroughCommands :
       /\ Len(link) < MaxPending
       /\ send_command(cmd)
       /\ Transmit("external")
       /\ read_from' = <<>>
       /\ UNCHANGED <<uart_from, rx_stream, rx_lines, published>>
  \/ instrument_reply
  \/ \E d \in TimeSteps :
       /\ Advance(d)
       /\ read_from' = <<>>
       /\ UNCHANGED <<link, uart_from, rx_stream, rx_lines, published>>

SpecLink == InitLink /\ [][NextLink]_vars

(***************************************************************************)
(* The byte stream followed through the component: after setup(), bytes    *)
(* arrive one at a time or several at once, up to MaxStream in all, with   *)
(* polls, send_command and set_function in between, and every byte read,   *)
(* every line handed over and every sink update is recorded.               *)
(***************************************************************************)
MaxStream == 5

StreamChunks == { <<"5">>, <<"E">>, <<LF>>, <<"5", LF>>, <<"E", CR, LF, "5">> }

InitStream ==
  /\ pc = "running"
  /\ rx_buffer_ = <<>>
  /\ current_function_ = "UNKNOWN"
  /\ waiting_for_idn_ = TRUE
  /\ last_query_ = U32(0)
  /\ value_sensor = ValueSensorEntity
  /\ function_sensor = NULL
  /\ idn_sensor = NULL
  /\ millis = U32(0)
  /\ uart_rx = <<>>
  /\ device_type = "auto"
  /\ out = [EmptyOut EXCEPT !.op = "setup", !.tx = setup_writes]
  /\ idn_sensor_arg = NULL
  /\ function_arg = NoCall
  /\ InitEnv

NextStream ==
  \/ /\ loop
     /\ rx_stream' = rx_stream \o uart_rx
     /\ rx_lines' = rx_lines \o out'.handled
     /\ published' = published \o out'.pub_text \o out'.pub_value
     /\ UNCHANGED <<link, uart_from, read_from>>
  \/ send_command(<<"M", "E", "A", "S", "1", "?">>) /\ UNCHANGED env
  \/ set_function(<<"C", "O", "N", "F", ":", "V", "O", "L", "T", ":", "D", "C">>) /\ UNCHANGED env
  \/ \E chunk \in StreamChunks :
       /\ Len(rx_stream) + Len(chunk) <= MaxStream
       /\ Receive(chunk)
       /\ UNCHANGED env
  \/ Advance(query_interval_) /\ UNCHANGED env

SpecStream == InitStream /\ [][NextStream]_vars

(***************************************************************************)
(* The clock at its wrap-around: the component has been running for close  *)
(* to 2^32 ms, millis() is WrapWindow ms before it returns to 0 and the    *)
(* last poll was 0, 50 or 100 ms ago.                                      *)
(***************************************************************************)
WrapWindow == 150

\* 2^32 - n, for 0 < n <= 2^16
U32Before(n) == [hi |-> Half - 1, lo |-> Half - n]

\* a time of the last 2^16 ms before the wrap-around or of the first 2^16
\* ms after it, counted from the wrap-around
WrapTime(a) == IF a.hi = Half - 1 THEN a.lo - Half ELSE a.lo

\* time passes, through the wrap-around
AdvanceWrap(d) ==
  /\ WrapTime(millis) + d <= MaxTime
  /\ millis' = U32Add(millis, d)
  /\ out' = EmptyOut
  /\ UNCHANGED <<pc, rx_buffer_, current_function_, waiting_for_idn_, last_query_,
                 value_sensor, function_sensor, idn_sensor, uart_rx, device_type,
                 idn_sensor_arg, function_arg>>

InitWrap ==
  /\ pc = "running"
  /\ rx_buffer_ = <<>>
  /\ current_function_ = "UNKNOWN"
  /\ waiting_for_idn_ \in BOOLEAN
  /\ millis = U32Before(WrapWindow)
  /\ last_query_ \in {U32Before(WrapWindow + e) : e \in {0, 50, 100}}
  /\ value_sensor = ValueSensorEntity
  /\ function_sensor = NULL
  /\ idn_sensor = NULL
  /\ uart_rx = <<>>
  /\ device_type = "auto"
  /\ out = EmptyOut
  /\ idn_sensor_arg = NULL
  /\ function_arg = NoCall
  /\ InitEnv

NextWrap ==
  \/ loop /\ UNCHANGED env
  \/ \E cmd \in FunctionCommands : set_function(cmd) /\ UNCHANGED env
  \/ \E d \in TimeSteps : AdvanceWrap(d) /\ UNCHANGED env

SpecWrap == InitWrap /\ [][NextWrap]_vars

(***************************************************************************)
(* The component running for ever: the framework calls loop() again and    *)
(* again and time passes, 50 ms at a time during the first MaxTime ms of   *)
(* each quarter of the range of millis() and otherwise LongStep ms after   *)
(* a call of loop(), so that millis() runs through its wrap-around again   *)
(* and again.  Bytes may arrive or not.                                    *)
(***************************************************************************)
\* 2^30 ms
LongStep == Half * (Half \div 4)

\* a long time passes after a call of loop()
Sleep ==
  /\ out.op = "loop"
  /\ millis' = U32Add(millis, LongStep)
  /\ out' = EmptyOut
  /\ UNCHANGED <<pc, rx_buffer_, current_function_, waiting_for_idn_, last_query_,
                 value_sensor, function_sensor, idn_sensor, uart_rx, device_type,
                 idn_sensor_arg, function_arg>>

\* 50 ms pass
Tick(d) ==
  /\ millis.lo + d <= MaxTime
  /\ millis' = U32Add(millis, d)
  /\ out' = EmptyOut
  /\ UNCHANGED <<pc, rx_buffer_, current_function_, waiting_for_idn_, last_query_,
                 value_sensor, function_sensor, idn_sensor, uart_rx, device_type,
                 idn_sensor_arg, function_arg>>

TimePasses ==
  \/ Sleep /\ UNCHANGED env
  \/ \E d \in TimeSteps : Tick(d) /\ UNCHANGED env

LiveChunks == { <<"5">>, <<LF>> }

NextLive ==
  \/ loop /\ UNCHANGED env
  \/ TimePasses
  \/ \E chunk \in LiveChunks : Receive(chunk) /\ UNCHANGED env

\* loop() is called again as long as the component runs, and time does not
\* stand still
SpecLive ==
  /\ InitStream
  /\ [][NextLive]_vars
  /\ WF_vars(loop /\ UNCHANGED env)
  /\ SF_vars(TimePasses)

(***************************************************************************)
(* The component and the instrument of SpecLink, with the operations that  *)
(* could be taken to start a new identification: send_command of *IDN?     *)
(* and of *RST, and set_function.                                          *)
(***************************************************************************)
IdnCommands == { <<"*", "I", "D", "N", "?">>, <<"*", "R", "S", "T">> }

NextIdn ==
  \/ /\ setup
     /\ Transmit("setup")
     /\ read_from' = <<>>
     /\ UNCHANGED <<uart_from, rx_stream, rx_lines, published>>
  \/ /\ loop
     /\ Transmit("poll")
     /\ read_from' = uart_from
     /\ uart_from' = <<>>
     /\ UNCHANGED <<rx_stream, rx_lines, published>>
  \/ \E cmd \in IdnCommands :
       /\ Len(link) < MaxPending
       /\ send_command(cmd)
       /\ Transmit("external")
       /\ read_from' = <<>>
       /\ UNCHANGED <<uart_from, rx_stream, rx_lines, published>>
  \/ /\ Len(link) < MaxPending
     /\ set_function(<<"R", "A", "T", "E", " ", "F">>)
     /\ Transmit("external")
     /\ read_from' = <<>>
     /\ UNCHANGED <<uart_from, rx_stream, rx_lines, published>>
  \/ instrument_reply
  \/ \E d \in TimeSteps :
       /\ Advance(d)
       /\ read_from' = <<>>
       /\ UNCHANGED <<link, uart_from, rx_stream, rx_lines, published>>

SpecIdn == InitLink /\ [][NextIdn]_vars
(***************************************************************************)
(* Properties.                                                             *)
(***************************************************************************)
StripCR(s) == SelectSeq(s, LAMBDA c : c # CR)

LFPositions(s) == {i \in 1..Len(s) : s[i] = LF}

\* the non-empty lines of s that a line-feed ends, in order
RECURSIVE CompleteLines(_)
CompleteLines(s) ==
  IF LFPositions(s) = {} THEN <<>>
  ELSE LET p   == Min(LFPositions(s))
           seg == SubSeq(s, 1, p - 1)
       IN  (IF seg = <<>> THEN <<>> ELSE <<seg>>) \o CompleteLines(SubSeq(s, p + 1, Len(s)))

\* what follows the last line-feed of s
Unterminated(s) ==
  IF LFPositions(s) = {} THEN s
  ELSE SubSeq(s, (CHOOSE p \in LFPositions(s) : \A q \in LFPositions(s) : q <= p) + 1, Len(s))

FramerStart ==
  [buf |-> <<>>, waiting |-> FALSE, handled |-> <<>>, pub_value |-> <<>>,
   pub_text |-> <<>>, log |-> <<>>]

C1_Step ==
  loop =>
    LET s == StripCR(rx_buffer_ \o uart_rx)
    IN  /\ out'.handled = CompleteLines(s)
        /\ rx_buffer_' = Unterminated(s)
        /\ uart_rx' = <<>>
        /\ Len(out'.pub_value) + Len(out'.pub_text) + Len(out'.log) <= Len(out'.handled)
        /\ out'.handled = <<>> => waiting_for_idn_' = waiting_for_idn_

\* C1: in every loop() the lines handed to handle_response_ are exactly the
\* non-empty LF-terminated lines of the buffered and the received bytes with
\* every CR removed, each handed over once; what follows the last LF stays
\* in rx_buffer_; a LF on an empty buffer hands over nothing and nothing is
\* published or logged without a line; "5.123456E-03\r\n" gives the one line
\* "5.123456E-03" and an empty buffer.
C1_LineFraming ==
  /\ read_available(FramerStart, ExampleReply).handled = << <<"5", ".", "1", "2", "3", "4", "5", "6", "E", "-", "0", "3">> >>
  /\ read_available(FramerStart, ExampleReply).buf = <<>>
  /\ [][C1_Step]_vars

\* C1 witness: a loop() that read a CR and LF terminated reply handed over
\* one line and left the buffer empty.
C1_Witness ==
  /\ out.op = "loop"
  /\ out.handled = << <<"5", ".", "1", "2", "3", "4", "5", "6", "E", "-", "0", "3">> >>
  /\ rx_buffer_ = <<>>

C2_Step ==
  (loop /\ waiting_for_idn_) =>
    LET h == out'.handled
    IN  /\ h = <<>> =>
             /\ waiting_for_idn_'
             /\ out'.pub_value = <<>> /\ out'.pub_text = <<>> /\ out'.log = <<>>
        /\ h # <<>> =>
             /\ ~waiting_for_idn_'
             /\ Len(out'.pub_value) + Len(out'.log) <= Len(h) - 1
             /\ value_sensor # NULL =>
                  Len(out'.pub_value) + Len(out'.log) = Len(h) - 1
             /\ Len(h) = 1 => (out'.pub_value = <<>> /\ out'.log = <<>>)

\* C2: while waiting_for_idn_ is set, a loop() that completes no non-empty
\* line leaves the flag set and publishes and logs nothing; the first
\* non-empty line it completes clears the flag and is neither parsed (no
\* value published, no parse failure logged) whatever its content: only the
\* lines after it are parsed.
C2_FirstLineIsIdentification == [][C2_Step]_vars

\* C2 witness: a numeric reply was the first line; the value sensor is bound
\* and received nothing.
C2_Witness ==
  /\ out.op = "loop"
  /\ out.handled = << <<"5", ".", "1", "2", "3", "4", "5", "6", "E", "-", "0", "3">> >>
  /\ value_sensor # NULL
  /\ out.pub_value = <<>>
  /\ out.log = <<>>
  /\ ~waiting_for_idn_

\* the measurement queries, as written to the link
MeasurementQueries ==
  {CmdLine(CommandSetQuery(DeviceCommands, f)) : f \in MeasurementFunction}

C3_Step ==
  loop =>
    /\ millis' = millis
    /\ IF U32Val(millis) - U32Val(last_query_) >= 100
       THEN /\ Len(out'.tx) = 1
            /\ out'.tx[1] \in MeasurementQueries
            /\ last_query_' = millis
       ELSE /\ out'.tx = <<>>
            /\ last_query_' = last_query_

\* the times at which loop() polls when it runs at the given times
RECURSIVE PollTimes(_, _)
PollTimes(ticks, last) ==
  IF ticks = <<>> THEN <<>>
  ELSE IF poll_due(U32(Head(ticks)), last)
       THEN <<Head(ticks)>> \o PollTimes(Tail(ticks), U32(Head(ticks)))
       ELSE PollTimes(Tail(ticks), last)

\* C3: a loop() sends exactly one measurement query and sets last_query_ to
\* the current time when at least 100 ms have passed since last_query_, and
\* sends nothing and leaves last_query_ alone otherwise; ticks at 0, 50, 100,
\* 150 and 250 ms poll at 100 and 250 ms.
C3_PollScheduler ==
  /\ PollTimes(<<0, 50, 100, 150, 250>>, U32(0)) = <<100, 250>>
  /\ [][C3_Step]_vars

\* C3 witness: a poll at 250 ms.
C3_Witness ==
  /\ out.op = "loop"
  /\ Len(out.tx) = 1
  /\ millis = U32(250)
  /\ last_query_ = U32(250)

SameLetter(a, b) ==
  \/ a = b
  \/ \E i \in 1..Len(LowerCase) : {a, b} = {LowerCase[i], UpperCase[i]}

\* frag occurs somewhere in s, letters compared without case
Occurs(frag, s) ==
  \E i \in 1..(Len(s) - Len(frag) + 1) :
    \A k \in 1..Len(frag) : SameLetter(s[i + k - 1], frag[k])

PresentFragments(s) == {i \in 1..Len(Fragments) : Occurs(Fragments[i], s)}

FunctionNamed(s) ==
  IF PresentFragments(s) = {} THEN "UNKNOWN"
  ELSE FragmentFunction[Min(PresentFragments(s))]

\* C4: after set_function(cmd) the current function is that of the first
\* fragment, in the order VOLT:DC, VOLT:AC, CURR:DC, CURR:AC, RES, CONT,
\* DIOD, FREQ, TEMP, CAP, that occurs in cmd in any case, and UNKNOWN when
\* none occurs; "MEAS:VOLT:DC?" and "ANYTHING VOLT:DC MORE" give VOLTAGE_DC.
C4_ParseFunction ==
  /\ function_arg # NoCall => current_function_ = FunctionNamed(function_arg)
  /\ function_arg \in { <<"M", "E", "A", "S", ":", "V", "O", "L", "T", ":", "D", "C", "?">>, <<"A", "N", "Y", "T", "H", "I", "N", "G", " ", "V", "O", "L", "T", ":", "D", "C", " ", "M", "O", "R", "E">> }
       => current_function_ = "VOLTAGE_DC"

\* C4 witness: a string with two fragments, the later one in the order
\* first and in lower case, selected the earlier one in the order.
C4_Witness ==
  /\ function_arg = <<"v", "o", "l", "t", ":", "a", "c", " ", "V", "O", "L", "T", ":", "D", "C">>
  /\ current_function_ = "VOLTAGE_DC"

C5_Step ==
  (loop /\ waiting_for_idn_ /\ ~waiting_for_idn_' /\ idn_sensor_arg # NULL) =>
    /\ Len(out'.pub_text) = 1
    /\ out'.pub_text[1] = [sink |-> idn_sensor_arg, state |-> out'.handled[1]]

\* C5: once set_idn_sensor(s) has been called, the first completed line is
\* published to s, once.
C5_IdentificationRouted == [][C5_Step]_vars

Numeric(lines) == SelectSeq(lines, LAMBDA l : parse_numeric_response_(l).ok)

NonNumeric(lines) == SelectSeq(lines, LAMBDA l : ~parse_numeric_response_(l).ok)

C6_Step ==
  (loop /\ ~waiting_for_idn_) =>
    LET h == out'.handled
    IN  /\ out'.pub_text = <<>>
        /\ out'.log = NonNumeric(h)
        /\ value_sensor # NULL =>
             out'.pub_value =
               [i \in 1..Len(Numeric(h)) |->
                  [sink |-> value_sensor,
                   state |-> parse_numeric_response_(Numeric(h)[i]).value]]
        /\ value_sensor = NULL => out'.pub_value = <<>>
        /\ ~waiting_for_idn_'
        /\ current_function_' = current_function_
        /\ (Len(out'.tx) = 1) = (U32Val(millis) - U32Val(last_query_) >= 100)
        /\ last_query_' = IF Len(out'.tx) = 1 THEN millis ELSE last_query_

\* C6: when waiting_for_idn_ is clear, every completed line that parses as a
\* number is published once, as that number, to the bound value sensor and
\* to nothing else, every line that does not parse is logged and published
\* nowhere; the function and the flag stay as they are and the poll check
\* of the same loop() is made as if no line had arrived.
C6_SteadyStateClassification == [][C6_Step]_vars

\* C6 witness: one loop() logged a line that does not parse, published the
\* value of a line that does, and polled.
C6_Witness ==
  /\ out.op = "loop"
  /\ Len(out.handled) = 2
  /\ Len(out.log) = 1
  /\ Len(out.pub_value) = 1
  /\ Len(out.tx) = 1

\* C7: a poll sends the query the configured device's CommandSet holds for
\* the current function.
C7_PollUsesCommandTable ==
  (out.op = "loop" /\ out.tx # <<>>) =>
    out.tx = <<CmdLine(CommandSetQuery(lookup(device_type), current_function_))>>

C9_SetFunction ==
  /\ out.op = "set_function" =>
       /\ out.tx = <<function_arg \o <<"\r", "\n">> >>
       /\ current_function_ = parse_function_(function_arg)
       /\ out.pub_text = IF function_sensor # NULL
                         THEN <<[sink |-> function_sensor, state |-> function_arg]>>
                         ELSE <<>>
       /\ out.pub_value = <<>>
       /\ out.log = <<>>
  /\ (out.op = "loop" /\ out.tx # <<>> /\ function_arg # NoCall) =>
       /\ out.tx = <<CommandSetQuery(DeviceCommands, parse_function_(function_arg))
                       \o <<"\r", "\n">> >>
       /\ PresentFragments(function_arg) = {} => out.tx = << <<"M", "E", "A", "S", "?", "\r", "\n">> >>
  /\ (function_arg # NoCall /\ PresentFragments(function_arg) = {}) =>
       current_function_ = "UNKNOWN"

\* C9 witness: a poll after set_function of a string without a fragment
\* sent MEAS?.
C9_Witness ==
  /\ out.op = "loop"
  /\ function_arg = <<"R", "A", "T", "E", " ", "F">>
  /\ out.tx = << <<"M", "E", "A", "S", "?", "\r", "\n">> >>

C10_Step ==
  /\ (pc = "constructed" /\ pc' = "running") =>
       /\ out'.tx = << <<"*", "I", "D", "N", "?", "\r", "\n">>, <<"*", "R", "S", "T", "\r", "\n">>, <<"S", "Y", "S", "T", ":", "R", "E", "M", "\r", "\n">> >>
       /\ out'.handled = <<>>
       /\ UNCHANGED <<uart_rx, rx_buffer_, waiting_for_idn_, last_query_>>
  /\ pc = "constructed" => (pc' = "running" \/ out'.tx = <<>>)
  /\ pc = "running" => pc' = "running"
  /\ (out'.op = "loop" /\ out'.tx # <<>>) => pc = "running"

\* C10: setup() writes *IDN?, *RST and SYST:REM, each with CR LF, in this
\* order, whatever the UART holds and without reading it; nothing else is
\* written before setup(), and a poll query is written only after it.
C10_StartupOrder == [][C10_Step]_vars

\* C10 witness: setup() ran while received bytes were waiting in the UART.
C10_Witness ==
  /\ out.op = "setup"
  /\ uart_rx # <<>>
  /\ pc = "running"

\* the commands setup() writes
StartupCommands == {setup_writes[i] : i \in 1..Len(setup_writes)}

\* C12: as long as no line has been taken as the identification, loop()
\* sends no measurement query, and loop() never writes a command of setup()
\* again.
C12_StartupFailureHalts ==
  out.op = "loop" =>
    /\ waiting_for_idn_ => out.tx = <<>>
    /\ \A i \in 1..Len(out.tx) : out.tx[i] \notin StartupCommands

C14_Step ==
  /\ function_arg = NoCall => current_function_ = "UNKNOWN"
  /\ current_function_' # current_function_ => out'.op = "set_function"
  /\ out'.op = "send_command" =>
       /\ out'.tx \in {<<cmd \o <<"\r", "\n">> >> : cmd \in PassthroughCommands}
       /\ current_function_' = current_function_
  /\ out'.op \in {"loop", "none"} => current_function_' = current_function_

\* C14: the current function is UNKNOWN until the first set_function; only
\* set_function changes it; send_command(cmd) writes cmd and CR LF and
\* leaves it as it is, also when cmd holds a fragment such as VOLT:AC, and
\* so do loop(), with or without a poll and whatever lines it completes, and
\* the arrival of bytes.
C14_FunctionChangedOnlyBySetFunction == [][C14_Step]_vars

\* C14 witness: send_command("CONF:VOLT:AC") was called with the function at
\* VOLTAGE_DC, and it still is.
C14_Witness ==
  /\ out.op = "send_command"
  /\ out.tx = << <<"C", "O", "N", "F", ":", "V", "O", "L", "T", ":", "A", "C", "\r", "\n">> >>
  /\ current_function_ = "VOLTAGE_DC"

\* the line is a decimal number from its first to its last character: an
\* optional sign, digits with an optional point, an optional exponent
WholeNumber(s) ==
  /\ s # <<>>
  /\ LET p1 == IF s[1] \in {"+", "-"} THEN 2 ELSE 1
         p2 == SkipDigits(s, p1)
         dot == p2 <= Len(s) /\ s[p2] = "."
         p3 == IF dot THEN SkipDigits(s, p2 + 1) ELSE p2
         nd == (p2 - p1) + (IF dot THEN p3 - p2 - 1 ELSE 0)
         p4 == IF p3 + 1 <= Len(s) /\ s[p3 + 1] \in {"+", "-"} THEN p3 + 2 ELSE p3 + 1
     IN  /\ nd > 0
         /\ \/ p3 = Len(s) + 1
            \/ /\ p3 <= Len(s)
               /\ s[p3] \in {"e", "E"}
               /\ SkipDigits(s, p4) > p4
               /\ SkipDigits(s, p4) = Len(s) + 1

C17_Step ==
  (loop /\ ~waiting_for_idn_) =>
    Len(out'.pub_value) <= Len(SelectSeq(out'.handled, WholeNumber))

\* C17: when waiting_for_idn_ is clear, only the completed lines that are a
\* number from the first to the last character are published to the value
\* sensor; a line with a numeric prefix followed by other text is not.
C17_OnlyWholeNumbersPublished == [][C17_Step]_vars

\* C13: setup() of a device configured as OWON_XDM writes, after the
\* identification query, RATE F and then RATE?.
C13_FastModeAtStartup ==
  (out.op = "setup" /\ device_type = "OWON_XDM") =>
    \E i, j, k \in 1..Len(out.tx) :
      /\ i < j /\ j < k
      /\ out.tx[i] = <<"*", "I", "D", "N", "?", "\r", "\n">>
      /\ out.tx[j] = <<"R", "A", "T", "E", " ", "F", "\r", "\n">>
      /\ out.tx[k] = <<"R", "A", "T", "E", "?", "\r", "\n">>

\* the measurement function each option of the function select names
OptionFunction ==
  << "VOLTAGE_DC", "VOLTAGE_AC", "CURRENT_DC", "CURRENT_AC", "RESISTANCE",
     "CAPACITANCE", "CONTINUITY", "DIODE" >>

\* C15: after a function change with an option of the function select as
\* its string, the current function is the one the option names and a poll
\* sends the query of that function.
C15_OptionSelectsFunction ==
  \A i \in 1..Len(FUNCTION_OPTIONS) :
    function_arg = FUNCTION_OPTIONS[i] =>
      /\ current_function_ = OptionFunction[i]
      /\ (out.op = "loop" /\ out.tx # <<>>) =>
           out.tx = <<query_measurement_(OptionFunction[i]) \o <<"\r", "\n">> >>

\* C20: parse_function_ of the query query_measurement_ sends for a function
\* other than UNKNOWN is that function: after set_function of the query
\* string the current function is the one it queries and a poll sends the
\* same string again.
C20_QueryRoundTrip ==
  \A f \in MeasurementFunction \ {"UNKNOWN"} :
    /\ parse_function_(query_measurement_(f)) = f
    /\ function_arg = query_measurement_(f) =>
         /\ current_function_ = f
         /\ (out.op = "loop" /\ out.tx # <<>>) =>
              out.tx = <<function_arg \o <<"\r", "\n">> >>

\* C20 witness: after set_function("MEAS:FREQ?") a poll sent MEAS:FREQ?.
C20_Witness ==
  /\ function_arg = <<"M", "E", "A", "S", ":", "F", "R", "E", "Q", "?">>
  /\ current_function_ = "FREQUENCY"
  /\ out.op = "loop"
  /\ out.tx = << <<"M", "E", "A", "S", ":", "F", "R", "E", "Q", "?", "\r", "\n">> >>

\* MEAS1? sent by send_command on an idle link
IdleMeas1 == [cmd |-> <<"M", "E", "A", "S", "1", "?", "\r", "\n">>, by |-> "external", idle |-> TRUE]

\* 0.005123456
ExampleValue ==
  [kind |-> "finite", neg |-> FALSE, digits |-> <<5, 1, 2, 3, 4, 5, 6>>, exp |-> 0 - 9]

C11_Step ==
  (loop /\ uart_from # <<>> /\ uart_from[1] = IdleMeas1) =>
    /\ out'.handled[1] = <<"5", ".", "1", "2", "3", "4", "5", "6", "E", "-", "0", "3">>
    /\ out'.pub_value # <<>>
    /\ out'.pub_value[1] = [sink |-> value_sensor, state |-> ExampleValue]
    /\ out'.pub_text = <<>>
    /\ Len(uart_from) = 1 =>
         /\ out'.handled = << <<"5", ".", "1", "2", "3", "4", "5", "6", "E", "-", "0", "3">> >>
         /\ out'.pub_value = <<[sink |-> value_sensor, state |-> ExampleValue]>>
         /\ out'.log = <<>>

\* C11: the loop() that reads the reply 5.123456E-03 to a MEAS1? that
\* send_command wrote on an idle link publishes 0.005123456 to the value
\* sensor, once, publishes no identification and logs no line.
C11_ExternalQueryPublishesValue == [][C11_Step]_vars

\* C11 witness: the reply to MEAS1? was the only line of a loop() and its
\* value was published.
C11_Witness ==
  /\ out.op = "loop"
  /\ out.handled = << <<"5", ".", "1", "2", "3", "4", "5", "6", "E", "-", "0", "3">> >>
  /\ out.pub_value = <<[sink |-> ValueSensorEntity, state |-> ExampleValue]>>
  /\ out.pub_text = <<>>
  /\ out.log = <<>>
  /\ read_from = <<IdleMeas1>>
  /\ Idle

C18_Step ==
  /\ (loop /\ U32Val(millis) - U32Val(last_query_) >= 100) =>
       /\ Len(out'.tx) = 1
       /\ Len(link') = Len(link) + 1
       /\ link'[Len(link')].cmd = out'.tx[1]
  /\ out'.op = "send_command" =>
       /\ Len(out'.tx) = 1
       /\ Len(link') = Len(link) + (IF IsQuery(out'.tx[1]) THEN 1 ELSE 0)
  /\ pc' = "running" => Len(link') >= Len(link) - 1

\* C18: a loop() whose poll is due writes its query, and send_command writes
\* its command, however many earlier queries are unanswered: every query
\* written joins the unanswered ones at once and only a reply of the
\* instrument takes one away.
C18_NoInFlightGate == [][C18_Step]_vars

\* C18 witness: a query of send_command and a poll query are both
\* unanswered.
C18_Witness ==
  /\ Len(link) >= 2
  /\ \E i, j \in 1..Len(link) : link[i].by = "external" /\ link[j].by = "poll"

\* C16: the lines handed to handle_response_ so far are the non-empty
\* LF-terminated lines of all the bytes read so far, with every CR removed,
\* and rx_buffer_ holds what follows the last LF, however the bytes were
\* split over the calls of loop() and whatever was sent in between.
C16_ChunkingIndependence ==
  /\ rx_lines = CompleteLines(StripCR(rx_stream))
  /\ rx_buffer_ = Unterminated(StripCR(rx_stream))

\* C16 witness: the line E5 arrived as E in one loop() and 5 LF in a later
\* one (no chunk holds both), in a run with a function change and a poll.
C16_Witness ==
  /\ rx_lines = << <<"E", "5">> >>
  /\ rx_stream = <<"E", "5", "\n">>
  /\ function_arg # NoCall
  /\ last_query_ # U32(0)

\* the sink updates of a sequence of lines: the first line to the
\* identification sensor, every later line that parses to the value sensor
ExpectedUpdates(lines) ==
  IF lines = <<>> THEN <<>>
  ELSE (IF idn_sensor # NULL THEN <<[sink |-> idn_sensor, state |-> Head(lines)]>> ELSE <<>>)
       \o (IF value_sensor # NULL
           THEN [i \in 1..Len(Numeric(Tail(lines))) |->
                   [sink |-> value_sensor,
                    state |-> parse_numeric_response_(Numeric(Tail(lines))[i]).value]]
           ELSE <<>>)

\* C19: the updates of the identification and the value sensor so far are
\* determined by the bytes read so far alone: the first line goes to the
\* identification sensor if one is bound, every later line that parses
\* goes to the value sensor as its number, whatever commands and polls were
\* written and whichever of them a line answers; waiting_for_idn_ is set as
\* long as no line has been completed.
C19_AttributionByContentOnly ==
  /\ published = ExpectedUpdates(CompleteLines(StripCR(rx_stream)))
  /\ waiting_for_idn_ = (CompleteLines(StripCR(rx_stream)) = <<>>)

\* C19 witness: after the identification line, a number was published with
\* no poll written since setup() and a query of send_command the last write.
C19_Witness ==
  /\ Len(published) = 1
  /\ Len(rx_lines) = 2
  /\ last_query_ = U32(0)
  /\ out.op = "send_command"

C21_Step ==
  loop =>
    LET elapsed == WrapTime(millis) - WrapTime(last_query_)
    IN  /\ elapsed >= 0
        /\ IF elapsed >= 100
           THEN /\ Len(out'.tx) = 1
                /\ out'.tx[1] \in MeasurementQueries
                /\ last_query_' = millis
           ELSE /\ out'.tx = <<>>
                /\ last_query_' = last_query_

\* C21: across the wrap-around of millis() a loop() sends a query, and
\* sets last_query_ to the current time, exactly when the time that has
\* really passed since last_query_ is at least 100 ms, so two polls in a
\* row are at least 100 ms apart; 100 ms from 50 ms before the wrap-around
\* is due, 99 ms is not.
C21_PollAcrossWrapAround ==
  /\ poll_due(U32(50), U32Before(50))
  /\ ~poll_due(U32(49), U32Before(50))
  /\ [][C21_Step]_vars

\* C21 witness: a poll after the wrap-around whose predecessor was before
\* it; last_query_ has taken the new, smaller time.
C21_Witness ==
  /\ out.op = "loop"
  /\ Len(out.tx) = 1
  /\ millis = U32(50)
  /\ last_query_ = U32(50)

\* C22: when loop() keeps being called and time keeps passing, a poll query
\* is written again and again, whether bytes arrive or not and whether the
\* identification line has arrived or not.
C22_PollsForever == []<>(out.op = "loop" /\ out.tx # <<>>)

\* C22 witness: a poll after three quarters of the range of millis(), with
\* no byte ever received and waiting_for_idn_ still set.
C22_Witness ==
  /\ out.op = "loop"
  /\ out.tx # <<>>
  /\ waiting_for_idn_
  /\ rx_buffer_ = <<>>
  /\ uart_rx = <<>>
  /\ millis.hi = 3 * (Half \div 4)

IdnQuery == CmdLine(<<"*", "I", "D", "N", "?">>)

\* the replies a loop() reads after the line routed as identification
LaterReplies == (IF waiting_for_idn_ THEN 2 ELSE 1) .. Len(uart_from)

C23_Step ==
  /\ ~waiting_for_idn_ => ~waiting_for_idn_'
  /\ loop =>
       /\ waiting_for_idn_' = (waiting_for_idn_ /\ uart_from = <<>>)
       /\ Len(out'.handled) = Len(uart_from)
       /\ out'.pub_text = <<>>
       /\ Len(out'.pub_value) + Len(out'.log) = Cardinality(LaterReplies)
       /\ \A i \in LaterReplies :
            uart_from[i].cmd = IdnQuery => out'.handled[i] = <<"X", "D", "M", "1", "0", "4", "1">>
       /\ Len(out'.log) =
            Cardinality({i \in LaterReplies : uart_from[i].cmd = IdnQuery})
       /\ \A i \in 1..Len(out'.log) : out'.log[i] = <<"X", "D", "M", "1", "0", "4", "1">>

\* C23: waiting_for_idn_, once false, stays false under every operation; a
\* loop() routes a line as identification only while the flag is set, and
\* then only the first line it reads, which clears the flag; every other
\* line is published as a value or logged as non-numeric, and the reply to
\* a later *IDN? is logged as non-numeric.
C23_IdentificationOneShot == [][C23_Step]_vars

\* C23 witness: after the identification and a set_function, a loop() read
\* one line, the reply to an *IDN? that send_command wrote, and logged it
\* as non-numeric.
C23_Witness ==
  /\ out.op = "loop"
  /\ ~waiting_for_idn_
  /\ function_arg # NoCall
  /\ \E i \in 1..Len(read_from) :
       read_from[i].cmd = IdnQuery /\ read_from[i].by = "external"
  /\ out.handled = << <<"X", "D", "M", "1", "0", "4", "1">> >>
  /\ out.log = << <<"X", "D", "M", "1", "0", "4", "1">> >>
  /\ out.pub_text = <<>>

====
